---- MODULE Spec2Model ----
(***************************************************************************)
(* The interview graph of graph.py: the eleven nodes of                    *)
(* build_interview_graph, the controller that routes between them, and     *)
(* the InterviewState they update.                                         *)
(*                                                                         *)
(* One behaviour is one session: one app.invoke(init) of the compiled      *)
(* graph, as __main__ makes it.  The graph is compiled without an          *)
(* interrupt, so an invocation runs node after node until save_progress    *)
(* reaches END.  pc is the node that runs next; every state is a boundary  *)
(* between two nodes.                                                      *)
(*                                                                         *)
(* Representation                                                          *)
(*   - scores are kept in hundredths (4.2 is 420);                         *)
(*   - estimated_time_used_min is kept in sixtieths of a minute, so that   *)
(*     adding time_taken_sec / 60.0 is adding the seconds;                 *)
(*   - a candidate answer is the record of what evaluate_answer reads      *)
(*     from its text: the four STAR keyword flags, whether a required      *)
(*     skill occurs in it, and its number of words;                        *)
(*   - the templated context (jd_summary, company_insights, ...) and the   *)
(*     narrative lists of the report carry no control flow and are left    *)
(*     out.                                                                *)
(***************************************************************************)
EXTENDS Integers, Sequences, FiniteSets, TLC

VARIABLES
    QUESTION_BANK,            \* module global, loaded once at import
    log_file,                 \* interview_log.json: the appended summaries
    pc,                       \* the node that runs next, or "END"
    steps,                    \* nodes run so far in this invocation
    max_questions,
    time_budget_min,
    difficulty,
    question_counter,
    asked_questions,
    answers,
    current_question,
    awaiting_answer,
    estimated_time_used_min,  \* in sixtieths of a minute
    should_follow_up,
    salary_negotiation_phase,
    interview_complete,
    final_report,
    messages,
    behavioral_questions,
    technical_questions

vars == << QUESTION_BANK, log_file, pc, steps, max_questions, time_budget_min,
           difficulty, question_counter, asked_questions, answers,
           current_question, awaiting_answer, estimated_time_used_min,
           should_follow_up, salary_negotiation_phase, interview_complete,
           final_report, messages, behavioral_questions, technical_questions >>

\* Python's None, for current_question and final_report.
None == [none |-> TRUE]

-----------------------------------------------------------------------------
(* Bounds of the model *)

\* Nodes one invocation may run (LangGraph stops an invocation at its
\* recursion limit; the follow-up loop is otherwise unbounded).
MaxSteps == 21

\* Longest question bank.
MaxBankLen == 3

\* Largest max_questions of a session.
MaxQuota == 3

\* Longest answer, in words, of the sessions that sweep the answers.
MaxWords == 81

-----------------------------------------------------------------------------
(* Program constants, scores in hundredths *)

HighConfidence == 400
MediumConfidence == 280
EscalateAt == 420
DeescalateBelow == 300
FollowUpFrom == 280
FollowUpBelow == 420
DetailWords == 80

-----------------------------------------------------------------------------
(* Data: questions, banks, candidate answers *)

Difficulties == {"easy", "medium", "hard"}

\* QuestionRecord: id, text, type, difficulty, topic.
Question(id, type, diff, topic) ==
    [id |-> id, text |-> "text of " \o id, type |-> type,
     difficulty |-> diff, topic |-> topic]

\* The questions banks are built from.
QuestionPool ==
    { Question("q_easy", "technical", "easy", "Python"),
      Question("q_med", "behavioral", "medium", "Teamwork"),
      Question("q_hard", "technical", "hard", "SQL"),
      Question("q_salary", "mixed", "medium", "Salary") }

\* question_bank.json: any ordered collection of questions with unique ids;
\* the empty bank is what a load failure leaves.
Banks ==
    { b \in UNION { [1..n -> QuestionPool] : n \in 0..MaxBankLen } :
        \A i, j \in DOMAIN b : i # j => b[i].id # b[j].id }

\* What evaluate_answer reads from an answer text: the STAR keyword flags,
\* whether a required skill occurs in it, and its number of words.
Answer(text, S, T, A, R, skill, words) ==
    [text |-> text, S |-> S, T |-> T, A |-> A, R |-> R,
     skill |-> skill, words |-> words]

\* The empty string: what the lookup of the last HumanMessage defaults to.
EmptyAnswer == Answer("", FALSE, FALSE, FALSE, FALSE, FALSE, 0)

\* Candidate answers of a session, one per score region.
CandidateAnswers ==
    { Answer("five plain words, no keyword", FALSE, FALSE, FALSE, FALSE, FALSE, 5),
      Answer("two STAR parts, a skill, 3 words", TRUE, FALSE, TRUE, FALSE, TRUE, 3),
      Answer("two STAR parts, a skill, 4 words", TRUE, FALSE, TRUE, FALSE, TRUE, 4),
      Answer("three STAR parts, a skill, 41 words", TRUE, TRUE, TRUE, FALSE, TRUE, 41),
      Answer("three STAR parts, a skill, 50 words", TRUE, TRUE, TRUE, FALSE, TRUE, 50),
      Answer("full STAR, a skill, 16 words", TRUE, TRUE, TRUE, TRUE, TRUE, 16),
      Answer("full STAR, a skill, 90 words", TRUE, TRUE, TRUE, TRUE, TRUE, 90) }

\* Every answer up to MaxWords words: each combination of STAR flags and
\* skill mention; a keyword or a skill takes a word.
AllAnswers ==
    { a \in { Answer("answer", f[1], f[2], f[3], f[4], f[5], w) :
                 f \in [1..5 -> BOOLEAN], w \in 0..MaxWords } :
        a.words = 0 => ~(a.S \/ a.T \/ a.A \/ a.R \/ a.skill) }

\* time.time() - start_time, in seconds: what the clock may show.
ElapsedSec == {0, 45}

\* The time budgets of a session, in minutes.
TimeBudgets == {1}

AIMessage(content) == [type |-> "ai", content |-> content]
HumanMessage(content) == [type |-> "human", content |-> content]

-----------------------------------------------------------------------------
(* evaluate_answer's scoring *)

Min(a, b) == IF a <= b THEN a ELSE b

\* sum(star.values()): the STAR dimensions the answer covers.
StarCount(a) ==
    (IF a.S THEN 1 ELSE 0) + (IF a.T THEN 1 ELSE 0)
    + (IF a.A THEN 1 ELSE 0) + (IF a.R THEN 1 ELSE 0)

\* The relevance without its floor of 0.5.
Relevance2_NoFloor(a) == IF a.skill THEN 2 ELSE 0

\* Twice the relevance: 1.0 with a required skill in the answer, else 0.5.
Relevance2(a) == IF a.skill THEN 2 ELSE 1

\* The inputs <<star count, twice the relevance, min(words, 80)>> at which
\* the weighted sum lies exactly halfway between two hundredths and
\* round(..., 2), on the double the expression evaluates to, goes up.
TieRoundsUp ==
    { <<0,1,2>>, <<0,1,10>>, <<0,1,14>>, <<0,1,18>>, <<0,1,22>>,
      <<0,1,38>>, <<0,1,46>>, <<0,1,50>>, <<0,1,54>>, <<0,1,62>>,
      <<0,1,74>>, <<0,2,30>>, <<0,2,34>>, <<0,2,38>>, <<0,2,42>>,
      <<0,2,70>>, <<0,2,78>>, <<1,1,0>>, <<1,1,4>>, <<1,1,8>>, <<1,1,12>>,
      <<1,1,16>>, <<1,1,24>>, <<1,1,28>>, <<1,1,32>>, <<1,1,36>>,
      <<1,1,40>>, <<1,1,44>>, <<1,1,48>>, <<1,1,52>>, <<1,1,56>>,
      <<1,1,64>>, <<1,1,68>>, <<1,1,72>>, <<1,1,76>>, <<1,1,80>>,
      <<1,2,8>>, <<1,2,20>>, <<1,2,28>>, <<1,2,36>>, <<1,2,44>>,
      <<1,2,60>>, <<1,2,76>>, <<2,1,2>>, <<2,1,6>>, <<2,1,18>>,
      <<2,1,26>>, <<2,1,30>>, <<2,1,34>>, <<2,1,38>>, <<2,1,46>>,
      <<2,1,54>>, <<2,1,58>>, <<2,1,62>>, <<2,1,66>>, <<2,1,70>>,
      <<2,1,74>>, <<2,2,2>>, <<2,2,6>>, <<2,2,10>>, <<2,2,14>>,
      <<2,2,18>>, <<2,2,22>>, <<2,2,26>>, <<2,2,38>>, <<2,2,42>>,
      <<2,2,46>>, <<2,2,50>>, <<2,2,54>>, <<2,2,58>>, <<2,2,62>>,
      <<2,2,66>>, <<2,2,70>>, <<2,2,74>>, <<2,2,78>>, <<3,1,4>>,
      <<3,1,8>>, <<3,1,12>>, <<3,1,16>>, <<3,1,20>>, <<3,1,36>>,
      <<3,1,48>>, <<3,1,52>>, <<3,1,56>>, <<3,1,60>>, <<3,1,64>>,
      <<3,1,68>>, <<3,1,72>>, <<3,1,76>>, <<3,1,80>>, <<3,2,0>>,
      <<3,2,4>>, <<3,2,8>>, <<3,2,12>>, <<3,2,16>>, <<3,2,20>>,
      <<3,2,24>>, <<3,2,28>>, <<3,2,32>>, <<3,2,36>>, <<3,2,40>>,
      <<3,2,44>>, <<3,2,48>>, <<3,2,52>>, <<3,2,56>>, <<3,2,64>>,
      <<3,2,68>>, <<3,2,72>>, <<3,2,76>>, <<3,2,80>>, <<4,1,2>>,
      <<4,1,6>>, <<4,1,10>>, <<4,1,14>>, <<4,1,18>>, <<4,1,22>>,
      <<4,1,26>>, <<4,1,30>>, <<4,1,38>>, <<4,1,46>>, <<4,1,50>>,
      <<4,1,54>>, <<4,1,58>>, <<4,1,62>>, <<4,1,66>>, <<4,1,74>>,
      <<4,2,2>>, <<4,2,6>>, <<4,2,14>>, <<4,2,18>>, <<4,2,22>>,
      <<4,2,26>>, <<4,2,30>>, <<4,2,42>>, <<4,2,46>>, <<4,2,54>>,
      <<4,2,58>>, <<4,2,62>>, <<4,2,66>>, <<4,2,70>>, <<4,2,74>>,
      <<4,2,78>> }

\* round((star_score * 0.5 + rel * 0.3 + detail * 0.2) * 5, 2), in
\* hundredths.  Eight times the exact value times 100 is
\* 500 * stars + 600 * (2 * rel) + 10 * min(words, 80).
Score(a) ==
    LET w == Min(a.words, DetailWords)
        x == 500 * StarCount(a) + 600 * Relevance2(a) + 10 * w
        q == x \div 8
        r == x % 8
    IN  IF r > 4 \/ (r = 4 /\ <<StarCount(a), Relevance2(a), w>> \in TieRoundsUp)
        THEN q + 1 ELSE q

\* The bands with a strict test for high.
Confidence_StrictHigh(score) ==
    IF score > HighConfidence THEN "high"
    ELSE IF score >= MediumConfidence THEN "medium"
    ELSE "low"

\* The confidence band of a score.
Confidence(score) ==
    IF score >= HighConfidence THEN "high"
    ELSE IF score >= MediumConfidence THEN "medium"
    ELSE "low"

\* The adjustment with the de-escalation threshold taken from the confidence
\* band (2.8) instead of 3.0.
AdjustDifficulty_BandThreshold(current_difficulty, score) ==
    IF score >= EscalateAt
    THEN IF current_difficulty = "easy" THEN "medium"
         ELSE IF current_difficulty = "medium" THEN "hard"
         ELSE current_difficulty
    ELSE IF score < MediumConfidence
    THEN IF current_difficulty = "hard" THEN "medium"
         ELSE IF current_difficulty = "medium" THEN "easy"
         ELSE current_difficulty
    ELSE current_difficulty

\* The difficulty adjustment of evaluate_answer.
AdjustDifficulty(current_difficulty, score) ==
    IF score >= EscalateAt
    THEN IF current_difficulty = "easy" THEN "medium"
         ELSE IF current_difficulty = "medium" THEN "hard"
         ELSE current_difficulty
    ELSE IF score < DeescalateBelow
    THEN IF current_difficulty = "hard" THEN "medium"
         ELSE IF current_difficulty = "medium" THEN "easy"
         ELSE current_difficulty
    ELSE current_difficulty

\* The follow-up test with its upper bound included.
FollowUpWarranted_UpperInclusive(score) ==
    FollowUpFrom <= score /\ score <= FollowUpBelow

\* Whether evaluate_answer asks for a follow-up.
FollowUpWarranted(score) == FollowUpFrom <= score /\ score < FollowUpBelow

\* next((m.content for m in reversed(msgs) if isinstance(m, HumanMessage)), "")
RECURSIVE LastHumanFrom(_, _)
LastHumanFrom(msgs, i) ==
    IF i = 0 THEN EmptyAnswer
    ELSE IF msgs[i].type = "human" THEN msgs[i].content
    ELSE LastHumanFrom(msgs, i - 1)

LastHumanAnswer(msgs) == LastHumanFrom(msgs, Len(msgs))

-----------------------------------------------------------------------------
(* Question selection, routing, report *)

AskedIds(asked) == { asked[i].id : i \in DOMAIN asked }

\* _select_question without medium as the filler tier.
_select_question_ExactDifficulty(bank, asked, diff) ==
    LET used_ids == AskedIds(asked)
        Fits(q) == q.difficulty = diff /\ q.id \notin used_ids
        Unused(q) == q.id \notin used_ids
        candidates == SelectSeq(bank, Fits)
        widened == SelectSeq(bank, Unused)
    IN  IF candidates # << >> THEN Head(candidates)
        ELSE IF widened # << >> THEN Head(widened)
        ELSE None

\* _select_question whose widened list forgets the used ids.
_select_question_WidenedIgnoresUsed(bank, asked, diff) ==
    LET used_ids == AskedIds(asked)
        Fits(q) == q.difficulty \in {diff, "medium"} /\ q.id \notin used_ids
        candidates == SelectSeq(bank, Fits)
    IN  IF candidates # << >> THEN Head(candidates)
        ELSE IF bank # << >> THEN Head(bank)
        ELSE None

\* _select_question: the first unused question of the current difficulty or
\* of medium difficulty, else the first unused question, else None.
_select_question(bank, asked, diff) ==
    LET used_ids == AskedIds(asked)
        Fits(q) == q.difficulty \in {diff, "medium"} /\ q.id \notin used_ids
        Unused(q) == q.id \notin used_ids
        candidates == SelectSeq(bank, Fits)
        widened == SelectSeq(bank, Unused)
    IN  IF candidates # << >> THEN Head(candidates)
        ELSE IF widened # << >> THEN Head(widened)
        ELSE None

\* The controller without the save_progress branch: a complete interview
\* past its salary stage falls through to the checks of the main loop.
controller_NoSaveBranch(complete, salary_phase, follow_up, est, budget_min, counter, max_q) ==
    IF complete /\ ~salary_phase THEN "start_salary_negotiation"
    ELSE IF follow_up THEN "generate_follow_up_question"
    ELSE IF est >= budget_min * 60 THEN "generate_final_report"
    ELSE IF counter >= max_q THEN "generate_final_report"
    ELSE "generate_question"

\* The controller sending every complete interview straight to
\* save_progress.
controller_SkipsSalary(complete, salary_phase, follow_up, est, budget_min, counter, max_q) ==
    IF complete THEN "save_progress"
    ELSE IF follow_up THEN "generate_follow_up_question"
    ELSE IF est >= budget_min * 60 THEN "generate_final_report"
    ELSE IF counter >= max_q THEN "generate_final_report"
    ELSE "generate_question"

\* The controller without its time budget check.
controller_NoTimeCheck(complete, salary_phase, follow_up, est, budget_min, counter, max_q) ==
    IF complete
    THEN IF ~salary_phase THEN "start_salary_negotiation" ELSE "save_progress"
    ELSE IF follow_up THEN "generate_follow_up_question"
    ELSE IF counter >= max_q THEN "generate_final_report"
    ELSE "generate_question"

\* The controller with the time budget and quota checks before the
\* follow-up check.
controller_LimitsFirst(complete, salary_phase, follow_up, est, budget_min, counter, max_q) ==
    IF complete
    THEN IF ~salary_phase THEN "start_salary_negotiation" ELSE "save_progress"
    ELSE IF est >= budget_min * 60 THEN "generate_final_report"
    ELSE IF counter >= max_q THEN "generate_final_report"
    ELSE IF follow_up THEN "generate_follow_up_question"
    ELSE "generate_question"

\* controller: the node the conditional edges route to.  est is in
\* sixtieths of a minute.
controller(complete, salary_phase, follow_up, est, budget_min, counter, max_q) ==
    IF complete
    THEN IF ~salary_phase THEN "start_salary_negotiation" ELSE "save_progress"
    ELSE IF follow_up THEN "generate_follow_up_question"
    ELSE IF est >= budget_min * 60 THEN "generate_final_report"
    ELSE IF counter >= max_q THEN "generate_final_report"
    ELSE "generate_question"

\* The branch of controller that appends "Time limit reached." to the
\* messages list of the state it was handed, in place.
TimeLimitBranch(complete, follow_up, est, budget_min) ==
    ~complete /\ ~follow_up /\ est >= budget_min * 60

\* state["messages"] after controller has run on it.
MessagesAfterController(msgs, complete, follow_up, est, budget_min) ==
    IF TimeLimitBranch(complete, follow_up, est, budget_min)
    THEN Append(msgs, AIMessage("Time limit reached."))
    ELSE msgs

RECURSIVE SumScores(_)
SumScores(ans) ==
    IF ans = << >> THEN 0 ELSE Head(ans).score + SumScores(Tail(ans))

\* The report with the two type counts swapped.
Report_SwappedCounts(ans, behavioral, technical) ==
    IF ans = << >>
    THEN [total_questions |-> 0, overall_confidence |-> "Low",
          behavioral_questions |-> 0, technical_questions |-> 0]
    ELSE [total_questions |-> Len(ans),
          overall_confidence |->
              IF SumScores(ans) >= HighConfidence * Len(ans) THEN "High"
              ELSE IF SumScores(ans) >= MediumConfidence * Len(ans) THEN "Medium"
              ELSE "Low",
          behavioral_questions |-> technical,
          technical_questions |-> behavioral]

\* The report of generate_final_report: its counts and its confidence band
\* (average_score >= 4.0 is sum >= 4.0 * total).
Report(ans, behavioral, technical) ==
    IF ans = << >>
    THEN [total_questions |-> 0, overall_confidence |-> "Low",
          behavioral_questions |-> 0, technical_questions |-> 0]
    ELSE [total_questions |-> Len(ans),
          overall_confidence |->
              IF SumScores(ans) >= HighConfidence * Len(ans) THEN "High"
              ELSE IF SumScores(ans) >= MediumConfidence * Len(ans) THEN "Medium"
              ELSE "Low",
          behavioral_questions |-> behavioral,
          technical_questions |-> technical]

\* The follow-up QuestionRecord always of medium difficulty.
FollowUpQuestion_MediumDifficulty(previous_question, previous_answer) ==
    [id |-> "followup_" \o previous_question.id,
     text |-> "elaborate on '" \o previous_answer.text \o "'",
     type |-> previous_question.type,
     difficulty |-> "medium",
     topic |-> previous_question.topic]

\* The follow-up QuestionRecord synthesized from the question just answered
\* and the first 20 characters of the last candidate answer (the answer
\* texts of the model are its labels).
FollowUpQuestion(previous_question, previous_answer) ==
    [id |-> "followup_" \o previous_question.id,
     text |-> "elaborate on '" \o previous_answer.text \o "'",
     type |-> previous_question.type,
     difficulty |-> previous_question.difficulty,
     topic |-> previous_question.topic]

\* The AnswerRecord of evaluate_answer (its feedback string is a function of
\* the fields kept here).
AnswerRecord(q, ans, elapsed) ==
    [question_id |-> q.id,
     user_answer |-> ans.text,
     score |-> Score(ans),
     confidence |-> Confidence(Score(ans)),
     star_usage |-> [S |-> ans.S, T |-> ans.T, A |-> ans.A, R |-> ans.R],
     time_taken_sec |-> elapsed]

\* [q for q in QUESTION_BANK if q["topic"] == "Salary"]
IsSalary(q) == q.topic = "Salary"
salary_questions(bank) == SelectSeq(bank, IsSalary)

-----------------------------------------------------------------------------
(* The session *)

\* The state right after app.invoke(init) has written its input: the fields
\* the input does not give read as their .get defaults.
Init ==
    /\ QUESTION_BANK \in Banks
    /\ log_file = << >>
    /\ pc = "parse_job_description"
    /\ steps = 0
    /\ max_questions \in 0..MaxQuota
    /\ time_budget_min \in TimeBudgets
    /\ difficulty \in Difficulties
    /\ messages \in {<< >>} \cup { <<HumanMessage(a)>> : a \in CandidateAnswers }
    /\ question_counter = 0
    /\ asked_questions = << >>
    /\ answers = << >>
    /\ current_question = None
    /\ awaiting_answer = FALSE
    /\ estimated_time_used_min = 0
    /\ should_follow_up = FALSE
    /\ salary_negotiation_phase = FALSE
    /\ interview_complete = FALSE
    /\ final_report = None
    /\ behavioral_questions = 0
    /\ technical_questions = 0

\* Node n is the one to run, and the invocation may still run a node.
Runs(n) == pc = n /\ steps < MaxSteps /\ steps' = steps + 1

static == << QUESTION_BANK, max_questions, time_budget_min >>
progress == << difficulty, question_counter, asked_questions, answers,
               current_question, awaiting_answer, estimated_time_used_min,
               behavioral_questions, technical_questions >>
flags == << should_follow_up, salary_negotiation_phase, interview_complete,
            final_report >>

\* Sets the templated summary, skills and seniority.
parse_job_description ==
    /\ Runs("parse_job_description")
    /\ pc' = "research_company"
    /\ UNCHANGED << static, progress, flags, messages, log_file >>

\* Sets the templated company insights.
research_company ==
    /\ Runs("research_company")
    /\ pc' = "analyze_role"
    /\ UNCHANGED << static, progress, flags, messages, log_file >>

\* Resets the progress fields; the controller routes from here.
analyze_role ==
    /\ Runs("analyze_role")
    /\ difficulty' = difficulty
    /\ question_counter' = 0
    /\ asked_questions' = << >>
    /\ answers' = << >>
    /\ awaiting_answer' = FALSE
    /\ time_budget_min' = time_budget_min
    /\ estimated_time_used_min' = 0
    /\ behavioral_questions' = 0
    /\ technical_questions' = 0
    /\ messages' = MessagesAfterController(messages, interview_complete,
                       should_follow_up, 0, time_budget_min)
    /\ pc' = controller(interview_complete, salary_negotiation_phase,
                 should_follow_up, 0, time_budget_min, 0, max_questions)
    /\ UNCHANGED << QUESTION_BANK, max_questions, current_question, flags, log_file >>

generate_question ==
    /\ Runs("generate_question")
    /\ pc' = "evaluate_answer"
    /\ LET q == _select_question(QUESTION_BANK, asked_questions, difficulty)
       IN  IF question_counter >= max_questions \/ q = None
           THEN /\ current_question' = None
                /\ UNCHANGED << question_counter, asked_questions, awaiting_answer,
                                messages, behavioral_questions, technical_questions >>
           ELSE /\ current_question' = q
                /\ question_counter' = question_counter + 1
                /\ asked_questions' = Append(asked_questions, q)
                /\ awaiting_answer' = TRUE
                /\ messages' = Append(messages, AIMessage("Question: " \o q.text))
                /\ behavioral_questions' =
                       IF q.type = "behavioral" THEN behavioral_questions + 1
                       ELSE behavioral_questions
                /\ technical_questions' =
                       IF q.type = "technical" THEN technical_questions + 1
                       ELSE technical_questions
    /\ UNCHANGED << static, difficulty, answers, estimated_time_used_min, flags, log_file >>

\* Poses the follow-up to the question just answered and consumes the flag.
\* Subscripting a current_question of None raises TypeError, which ends the
\* invocation.
generate_follow_up_question ==
    /\ Runs("generate_follow_up_question")
    /\ IF ~should_follow_up
       THEN /\ pc' = "evaluate_answer"
            /\ UNCHANGED << current_question, question_counter, asked_questions,
                            awaiting_answer, messages, should_follow_up >>
       ELSE IF current_question = None
       THEN /\ pc' = "TypeError"
            /\ UNCHANGED << current_question, question_counter, asked_questions,
                            awaiting_answer, messages, should_follow_up >>
       ELSE LET follow_up_question ==
                    FollowUpQuestion(current_question, LastHumanAnswer(messages))
            IN  /\ pc' = "evaluate_answer"
                /\ current_question' = follow_up_question
                /\ question_counter' = question_counter + 1
                /\ asked_questions' = Append(asked_questions, follow_up_question)
                /\ awaiting_answer' = TRUE
                /\ messages' = Append(messages,
                                   AIMessage("Follow-up: " \o follow_up_question.text))
                /\ should_follow_up' = FALSE
    /\ UNCHANGED << static, difficulty, answers, estimated_time_used_min,
                    behavioral_questions, technical_questions,
                    salary_negotiation_phase, interview_complete, final_report,
                    log_file >>

\* evaluate_answer without its awaiting_answer guard.
evaluate_answer_NoAwaitingGuard ==
    /\ Runs("evaluate_answer")
    /\ pc' = "update_progress"
    /\ IF current_question = None
       THEN UNCHANGED << answers, awaiting_answer, should_follow_up, difficulty >>
       ELSE \E elapsed \in ElapsedSec :
                LET rec == AnswerRecord(current_question,
                                        LastHumanAnswer(messages), elapsed)
                IN  /\ answers' = Append(answers, rec)
                    /\ awaiting_answer' = FALSE
                    /\ should_follow_up' = FollowUpWarranted(rec.score)
                    /\ difficulty' = AdjustDifficulty(difficulty, rec.score)
    /\ UNCHANGED << static, question_counter, asked_questions, current_question,
                    estimated_time_used_min, behavioral_questions,
                    technical_questions, salary_negotiation_phase,
                    interview_complete, final_report, messages, log_file >>

\* Scores the last candidate message of the log against current_question.
evaluate_answer ==
    /\ Runs("evaluate_answer")
    /\ pc' = "update_progress"
    /\ IF ~awaiting_answer \/ current_question = None
       THEN UNCHANGED << answers, awaiting_answer, should_follow_up, difficulty >>
       ELSE \E elapsed \in ElapsedSec :
                LET rec == AnswerRecord(current_question,
                                        LastHumanAnswer(messages), elapsed)
                IN  /\ answers' = Append(answers, rec)
                    /\ awaiting_answer' = FALSE
                    /\ should_follow_up' = FollowUpWarranted(rec.score)
                    /\ difficulty' = AdjustDifficulty(difficulty, rec.score)
    /\ UNCHANGED << static, question_counter, asked_questions, current_question,
                    estimated_time_used_min, behavioral_questions,
                    technical_questions, salary_negotiation_phase,
                    interview_complete, final_report, messages, log_file >>

\* update_progress setting the time to that of the last answer instead of
\* adding it.
update_progress_OverwritesTime ==
    /\ Runs("update_progress")
    /\ LET new_estimated_time ==
               IF answers = << >> THEN estimated_time_used_min
               ELSE answers[Len(answers)].time_taken_sec
           new_messages ==
               IF answers = << >> THEN messages
               ELSE Append(messages, AIMessage("Progress: avg score."))
       IN  /\ estimated_time_used_min' = new_estimated_time
           /\ messages' = MessagesAfterController(new_messages, interview_complete,
                              should_follow_up, new_estimated_time, time_budget_min)
           /\ pc' = controller(interview_complete, salary_negotiation_phase,
                        should_follow_up, new_estimated_time, time_budget_min,
                        question_counter, max_questions)
    /\ UNCHANGED << static, difficulty, question_counter, asked_questions, answers,
                    current_question, awaiting_answer, behavioral_questions,
                    technical_questions, flags, log_file >>

\* Adds the time of the last answer; the controller routes from here.
update_progress ==
    /\ Runs("update_progress")
    /\ LET new_estimated_time ==
               IF answers = << >> THEN estimated_time_used_min
               ELSE estimated_time_used_min + answers[Len(answers)].time_taken_sec
           new_messages ==
               IF answers = << >> THEN messages
               ELSE Append(messages, AIMessage("Progress: avg score."))
       IN  /\ estimated_time_used_min' = new_estimated_time
           /\ messages' = MessagesAfterController(new_messages, interview_complete,
                              should_follow_up, new_estimated_time, time_budget_min)
           /\ pc' = controller(interview_complete, salary_negotiation_phase,
                        should_follow_up, new_estimated_time, time_budget_min,
                        question_counter, max_questions)
    /\ UNCHANGED << static, difficulty, question_counter, asked_questions, answers,
                    current_question, awaiting_answer, behavioral_questions,
                    technical_questions, flags, log_file >>

\* Builds the report and completes the interview; its conditional edge
\* has the two targets start_salary_negotiation and save_progress.
generate_final_report ==
    /\ Runs("generate_final_report")
    /\ final_report' = Report(answers, behavioral_questions, technical_questions)
    /\ interview_complete' = TRUE
    /\ messages' = Append(messages,
                       AIMessage("Interview complete. Generating final report."))
    /\ pc' = controller(TRUE, salary_negotiation_phase, should_follow_up,
                 estimated_time_used_min, time_budget_min, question_counter,
                 max_questions)
    /\ pc' \in {"start_salary_negotiation", "save_progress"}
    /\ UNCHANGED << static, progress, should_follow_up, salary_negotiation_phase,
                    log_file >>

start_salary_negotiation ==
    /\ Runs("start_salary_negotiation")
    /\ salary_negotiation_phase' = TRUE
    /\ pc' = "negotiate_salary"
    /\ UNCHANGED << static, progress, should_follow_up, interview_complete,
                    final_report, messages, log_file >>

\* negotiate_salary posing no question at all.
negotiate_salary_NeverPoses ==
    /\ Runs("negotiate_salary")
    /\ pc' = "evaluate_answer"
    /\ UNCHANGED << current_question, awaiting_answer, messages >>
    /\ UNCHANGED << static, difficulty, question_counter, asked_questions, answers,
                    estimated_time_used_min, behavioral_questions,
                    technical_questions, flags, log_file >>

\* negotiate_salary recording the salary question in asked_questions
\* without counting it.
negotiate_salary_RecordsUncounted ==
    /\ Runs("negotiate_salary")
    /\ pc' = "evaluate_answer"
    /\ IF ~salary_negotiation_phase \/ salary_questions(QUESTION_BANK) = << >>
       THEN UNCHANGED << current_question, awaiting_answer, messages,
                         asked_questions >>
       ELSE LET question == Head(salary_questions(QUESTION_BANK))
            IN  /\ current_question' = question
                /\ awaiting_answer' = TRUE
                /\ asked_questions' = Append(asked_questions, question)
                /\ messages' = Append(messages,
                       AIMessage("Now, let's discuss salary. " \o question.text))
    /\ UNCHANGED << static, difficulty, question_counter, answers,
                    estimated_time_used_min, behavioral_questions,
                    technical_questions, flags, log_file >>

\* Poses the first question of the bank whose topic is Salary, if any.
negotiate_salary ==
    /\ Runs("negotiate_salary")
    /\ pc' = "evaluate_answer"
    /\ IF ~salary_negotiation_phase \/ salary_questions(QUESTION_BANK) = << >>
       THEN UNCHANGED << current_question, awaiting_answer, messages >>
       ELSE LET question == Head(salary_questions(QUESTION_BANK))
            IN  /\ current_question' = question
                /\ awaiting_answer' = TRUE
                /\ messages' = Append(messages,
                       AIMessage("Now, let's discuss salary. " \o question.text))
    /\ UNCHANGED << static, difficulty, question_counter, asked_questions, answers,
                    estimated_time_used_min, behavioral_questions,
                    technical_questions, flags, log_file >>

\* Appends the session summary to interview_log.json; END follows.
save_progress ==
    /\ Runs("save_progress")
    /\ log_file' = Append(log_file, [final_report |-> final_report,
                                     answers |-> answers])
    /\ pc' = "END"
    /\ UNCHANGED << static, progress, flags, messages >>

\* The sessions that sweep the answers: one medium question in the bank, a
\* quota of one, and any answer of AllAnswers as the candidate's message.
ScoreInit ==
    /\ QUESTION_BANK = << Question("q_med", "behavioral", "medium", "Teamwork") >>
    /\ log_file = << >>
    /\ pc = "parse_job_description"
    /\ steps = 0
    /\ max_questions = 1
    /\ time_budget_min \in TimeBudgets
    /\ difficulty = "medium"
    /\ messages \in { <<HumanMessage(a)>> : a \in AllAnswers }
    /\ question_counter = 0
    /\ asked_questions = << >>
    /\ answers = << >>
    /\ current_question = None
    /\ awaiting_answer = FALSE
    /\ estimated_time_used_min = 0
    /\ should_follow_up = FALSE
    /\ salary_negotiation_phase = FALSE
    /\ interview_complete = FALSE
    /\ final_report = None
    /\ behavioral_questions = 0
    /\ technical_questions = 0

Next ==
    \/ parse_job_description
    \/ research_company
    \/ analyze_role
    \/ generate_question
    \/ generate_follow_up_question
    \/ evaluate_answer
    \/ update_progress
    \/ generate_final_report
    \/ start_salary_negotiation
    \/ negotiate_salary
    \/ save_progress

Spec == Init /\ [][Next]_vars

\* The same graph run on the sessions that sweep the answers.
ScoreSpec == ScoreInit /\ [][Next]_vars

\* The sessions on a bank of at most one question, starting at medium.
LiveInit == Init /\ Len(QUESTION_BANK) <= 1 /\ difficulty = "medium"

\* The graph runs its next node as long as there is one: an invocation
\* does not stop between two nodes.
LiveSpec == LiveInit /\ [][Next]_vars /\ WF_vars(Next)

-----------------------------------------------------------------------------
(* Properties *)

Last(seq) == seq[Len(seq)]

\* The greatest index of msgs whose message satisfies the test, 0 if none.
LastIndex(msgs, Test(_)) ==
    LET hits == { i \in DOMAIN msgs : Test(msgs[i]) }
    IN  IF hits = {} THEN 0 ELSE CHOOSE i \in hits : \A j \in hits : j <= i

IsHuman(m) == m.type = "human"

\* The messages that pose question q to the candidate.
Poses(m, q) ==
    /\ m.type = "ai"
    /\ m.content \in { "Question: " \o q.text, "Follow-up: " \o q.text,
                       "Now, let's discuss salary. " \o q.text }

\* generate_question has just found no question to pose.
NoQuestionFound ==
    pc = "update_progress" /\ current_question = None /\ ~interview_complete

\* C1: whenever question generation finds no available question, the
\* controller's next decision is generate_final_report: the session does
\* not go back to generate_question.
C1_NoQuestionRoutesToReport ==
    [][NoQuestionFound => pc' = "generate_final_report"]_vars

\* C2: when evaluate_answer creates the AnswerRecord for the question that
\* is awaiting its answer, the answer it scores is a candidate message added
\* to the conversation log after the message that posed the question.
C2_AnswerFollowsQuestion ==
    (pc = "evaluate_answer" /\ awaiting_answer /\ current_question # None)
    => LET PosesCurrent(m) == Poses(m, current_question)
       IN  LastIndex(messages, IsHuman) > LastIndex(messages, PosesCurrent)

\* The time budget is used up while the question quota is not.
TimeUpBeforeQuota ==
    /\ ~interview_complete
    /\ estimated_time_used_min >= time_budget_min * 60
    /\ question_counter < max_questions

\* C3 as claimed: once the time budget is used up with the quota not yet
\* reached, the controller's next decision is generate_final_report.
C3_TimeUpRoutesToReport ==
    [][(pc = "update_progress" /\ TimeUpBeforeQuota')
           => pc' = "generate_final_report"]_vars

\* C3 as amended: once the time budget is used up with the quota not yet
\* reached, the controller's next decision is generate_final_report unless
\* a follow-up is pending, which is posed first; generate_question never
\* runs again.
C3_TimeUpRoutesToReportOrFollowUp ==
    [][/\ (pc = "update_progress" /\ TimeUpBeforeQuota')
           => pc' = IF should_follow_up' THEN "generate_follow_up_question"
                    ELSE "generate_final_report"
       /\ TimeUpBeforeQuota' => pc' # "generate_question"]_vars

\* The controller has sent a session whose time is up, with questions left
\* in its quota, to the final report.
C3_Witness ==
    /\ TimeUpBeforeQuota
    /\ pc = "generate_final_report"
    /\ answers # << >>

\* C4: the node chosen after analyze_role, update_progress and
\* generate_final_report is the one the priority list gives for the state
\* the node leaves, and after generate_final_report it is one of
\* start_salary_negotiation and save_progress.
C4_ControllerPriority ==
    [][/\ pc \in {"analyze_role", "update_progress", "generate_final_report"}
           => pc' = CASE interview_complete' /\ ~salary_negotiation_phase'
                             -> "start_salary_negotiation"
                      [] interview_complete' /\ salary_negotiation_phase'
                             -> "save_progress"
                      [] ~interview_complete' /\ should_follow_up'
                             -> "generate_follow_up_question"
                      [] ~interview_complete' /\ ~should_follow_up'
                         /\ estimated_time_used_min' >= time_budget_min' * 60
                             -> "generate_final_report"
                      [] ~interview_complete' /\ ~should_follow_up'
                         /\ estimated_time_used_min' < time_budget_min' * 60
                         /\ question_counter' >= max_questions'
                             -> "generate_final_report"
                      [] OTHER -> "generate_question"
       /\ pc = "generate_final_report"
           => pc' \in {"start_salary_negotiation", "save_progress"}]_vars

\* The controller has chosen the follow-up although the time is up and the
\* quota is reached: rule (2) before rules (3) and (4).
C4_Witness ==
    /\ pc = "generate_follow_up_question"
    /\ estimated_time_used_min >= time_budget_min * 60
    /\ question_counter >= max_questions

\* An AnswerRecord exists for question q.
Answered(q) == \E i \in DOMAIN answers : answers[i].question_id = q.id

\* C5: awaiting_answer is true iff current_question is not none and no
\* AnswerRecord of answers has its id.
C5_AwaitingIffUnanswered ==
    awaiting_answer <=> (current_question # None /\ ~Answered(current_question))

\* C6: every AnswerRecord's question_id is the id of an asked question.
C6_AnswersAreOfAskedQuestions ==
    \A i \in DOMAIN answers : answers[i].question_id \in AskedIds(asked_questions)

\* C7: the length of asked_questions equals question_counter.
C7_AskedCountsQuestions == Len(asked_questions) = question_counter

\* A bank question and two follow-ups have been posed and counted.
C7_Witness ==
    /\ pc = "evaluate_answer"
    /\ question_counter = 3
    /\ asked_questions[3].id = "followup_followup_" \o asked_questions[1].id

\* C8: no two AnswerRecords carry the same question_id.
C8_OneRecordPerQuestion ==
    \A i, j \in DOMAIN answers :
        answers[i].question_id = answers[j].question_id => i = j

InFollowUpRange(score) == 280 <= score /\ score < 420

\* A follow-up question to the question of record rec has been generated.
FollowUpGenerated(rec) ==
    \E j \in DOMAIN asked_questions :
        asked_questions[j].id = "followup_" \o rec.question_id

\* The records of answers whose routing has been decided: all but the one
\* update_progress or generate_follow_up_question is still to act on.
Decided ==
    IF pc \in {"update_progress", "generate_follow_up_question"}
    THEN 1..(Len(answers) - 1) ELSE DOMAIN answers

\* The records created in the main interview: those the report counted.
MainInterview ==
    IF interview_complete THEN 1..final_report.total_questions
    ELSE DOMAIN answers

\* C9 as claimed: a follow-up question is generated for an evaluated answer
\* iff its score is in [2.8, 4.2), for every answer of the session.
C9_FollowUpIffInRange ==
    \A i \in Decided :
        FollowUpGenerated(answers[i]) <=> InFollowUpRange(answers[i].score)

\* C9 as amended: a follow-up question is generated for an evaluated answer
\* iff its score is in [2.8, 4.2), for every answer evaluated in the main
\* interview (before the final report); and once
\* generate_follow_up_question has produced the follow-up, should_follow_up
\* is false.
C9_FollowUpIffInRangeInMainInterview ==
    /\ \A i \in Decided \cap MainInterview :
           FollowUpGenerated(answers[i]) <=> InFollowUpRange(answers[i].score)
    /\ (pc = "evaluate_answer" /\ ~interview_complete) => ~should_follow_up

\* A follow-up has been generated for the last answer and awaits its own
\* answer.
C9_Witness ==
    /\ pc = "evaluate_answer"
    /\ awaiting_answer
    /\ Len(answers) >= 1
    /\ FollowUpGenerated(Last(answers))
    /\ current_question.id = "followup_" \o Last(answers).question_id

\* C10: an evaluated answer moves difficulty by the nextDifficulty rule, one
\* level at most, and no other step changes it.
C10_DifficultyFollowsRule ==
    [][/\ IF pc = "evaluate_answer" /\ Len(answers') = Len(answers) + 1
          THEN LET score == Last(answers').score
               IN  difficulty' =
                       CASE score >= 420 /\ difficulty = "easy" -> "medium"
                         [] score >= 420 /\ difficulty = "medium" -> "hard"
                         [] score < 300 /\ difficulty = "hard" -> "medium"
                         [] score < 300 /\ difficulty = "medium" -> "easy"
                         [] OTHER -> difficulty
          ELSE difficulty' = difficulty
       /\ {difficulty, difficulty'} # {"easy", "hard"}]_vars

\* An answer of 4.2 or more has left the difficulty at medium: it was easy.
C10_Witness ==
    /\ pc = "update_progress"
    /\ Len(answers) = 1
    /\ answers[1].score >= 420
    /\ difficulty = "medium"

\* C11: generate_final_report runs at most once (it never runs on a
\* session that has its report), final_report is assigned once and never
\* changed, and final_report is set only if interview_complete is true.
C11_ReportOnce ==
    [][/\ pc = "generate_final_report"
              => (final_report = None /\ ~interview_complete)
       /\ final_report # None => final_report' = final_report
       /\ final_report' # None => interview_complete'
       /\ pc' = "generate_final_report"
              => (final_report' = None /\ ~interview_complete')]_vars

\* A session with answers has ended with its report.
C11_Witness ==
    /\ pc = "END"
    /\ final_report # None
    /\ final_report.total_questions >= 2

\* The messages of the log that open the salary stage's question.
SalaryPosings ==
    { i \in DOMAIN messages :
        /\ messages[i].type = "ai"
        /\ \E q \in QuestionPool :
               messages[i].content = "Now, let's discuss salary. " \o q.text }

\* C12: at most one question of topic Salary is ever posed, and only in the
\* salary stage: the main interview (asked_questions) poses none, and the
\* salary stage poses at most one.
C12_OneSalaryQuestion ==
    /\ \A i \in DOMAIN asked_questions : asked_questions[i].topic # "Salary"
    /\ Cardinality(SalaryPosings) <= 1
    /\ SalaryPosings # {} => salary_negotiation_phase

\* C13: with no Salary question in the bank, no step between
\* generate_final_report and save_progress changes anything but
\* salary_negotiation_phase.
C13_SalaryStageNoOp ==
    [][(/\ interview_complete
        /\ salary_questions(QUESTION_BANK) = << >>
        /\ pc # "save_progress")
           => UNCHANGED << static, progress, should_follow_up, interview_complete,
                           final_report, messages, log_file >>]_vars

RECURSIVE SumTimes(_)
SumTimes(ans) ==
    IF ans = << >> THEN 0
    ELSE Head(ans).time_taken_sec + SumTimes(Tail(ans))

\* C14: estimated_time_used_min is the sum of time_taken_sec / 60 over the
\* records of answers, each counted once (the last record is added by the
\* update_progress that follows its evaluation).
C14_TimeIsSumOfAnswers ==
    \/ estimated_time_used_min = SumTimes(answers)
    \/ /\ pc = "update_progress"
       /\ answers # << >>
       /\ estimated_time_used_min = SumTimes(SubSeq(answers, 1, Len(answers) - 1))

\* C15: evaluate_answer invoked with awaiting_answer false or
\* current_question none returns the empty update: no field changes and
\* the run goes on to update_progress.
C15_EvaluateNoOp ==
    [][(/\ pc = "evaluate_answer"
        /\ (~awaiting_answer \/ current_question = None))
           => /\ pc' = "update_progress"
              /\ UNCHANGED << static, progress, flags, messages, log_file >>]_vars

\* evaluate_answer has run with a question answered earlier still in
\* current_question and nothing awaiting an answer.
C15_Witness ==
    /\ pc = "update_progress"
    /\ interview_complete
    /\ ~awaiting_answer
    /\ current_question # None
    /\ salary_questions(QUESTION_BANK) = << >>

\* C16: for every difficulty, _select_question returns none or a question
\* whose id is not the id of an entry of asked_questions.
C16_SelectsUnused ==
    \A d \in Difficulties :
        LET q == _select_question(QUESTION_BANK, asked_questions, d)
        IN  q = None \/ q.id \notin AskedIds(asked_questions)

\* Every question of the bank has been asked, and a follow-up too.
C16_Witness ==
    /\ QUESTION_BANK # << >>
    /\ \A i \in DOMAIN QUESTION_BANK :
           QUESTION_BANK[i].id \in AskedIds(asked_questions)
    /\ Len(asked_questions) > Len(QUESTION_BANK)
    /\ _select_question(QUESTION_BANK, asked_questions, difficulty) = None

\* C17: the composite score of every answer lies in [0, 5], and its
\* confidence is high iff score >= 4.0, medium iff 2.8 <= score < 4.0, low
\* iff score < 2.8.
C17_ScoreRangeAndBands ==
    \A i \in DOMAIN answers :
        LET rec == answers[i]
        IN  /\ 0 <= rec.score /\ rec.score <= 500
            /\ rec.confidence = "high" <=> rec.score >= 400
            /\ rec.confidence = "medium" <=> (280 <= rec.score /\ rec.score < 400)
            /\ rec.confidence = "low" <=> rec.score < 280

\* An answer has scored exactly 4.0 and is rated high.
C17_Witness ==
    /\ answers # << >>
    /\ Last(answers).score = 400
    /\ Last(answers).confidence = "high"

\* The answer of five words with no STAR keyword and no required skill is
\* the candidate's last message, and evaluate_answer is about to score it.
ScoresFiveWords ==
    /\ pc = "evaluate_answer"
    /\ awaiting_answer
    /\ current_question # None
    /\ LastHumanAnswer(messages)
           = Answer("five plain words, no keyword",
                    FALSE, FALSE, FALSE, FALSE, FALSE, 5)

\* The de-escalation of one level from hard or medium.
OneLevelDown(d) ==
    IF d = "hard" THEN "medium" ELSE "easy"

\* C18 as claimed: the five-word answer scores about 0.44 with no STAR
\* flag, is rated low, and moves the difficulty one level down.
C18_FiveWordsScore044 ==
    [][ScoresFiveWords
           => /\ Last(answers').score \in 43..45
              /\ Last(answers').confidence = "low"
              /\ difficulty' = OneLevelDown(difficulty)]_vars

\* C18 as amended: the five-word answer scores 0.81
\* ((0 * 0.5 + 0.5 * 0.3 + 0.0625 * 0.2) * 5 = 0.8125) with no STAR flag,
\* is rated low, and moves the difficulty one level down.
C18_FiveWordsScore081 ==
    [][ScoresFiveWords
           => /\ Last(answers').score = 81
              /\ Last(answers').star_usage
                     = [S |-> FALSE, T |-> FALSE, A |-> FALSE, R |-> FALSE]
              /\ Last(answers').confidence = "low"
              /\ difficulty' = OneLevelDown(difficulty)]_vars

\* The five-word answer has been scored and has left the difficulty at
\* medium: it was hard.
C18_Witness ==
    /\ pc = "update_progress"
    /\ Len(answers) = 1
    /\ answers[1].user_answer = "five plain words, no keyword"
    /\ difficulty = "medium"

\* The type of the asked question with the given id.
TypeOfAsked(id) ==
    (CHOOSE q \in { asked_questions[j] : j \in DOMAIN asked_questions } :
         q.id = id).type

\* The records of the given question type among the first n of answers.
AnsweredOfType(n, type) ==
    { i \in 1..n : TypeOfAsked(answers[i].question_id) = type }

Stage ==
    CASE pc = "parse_job_description" -> 0
      [] pc = "research_company" -> 1
      [] pc = "analyze_role" -> 2
      [] pc = "generate_final_report" -> 4
      [] pc = "start_salary_negotiation" -> 5
      [] pc = "save_progress" -> 7
      [] pc = "END" -> 8
      [] OTHER -> IF interview_complete THEN 6 ELSE 3

\* C20: the stages follow one another in order; save_progress runs only
\* with the report generated and salary_negotiation_phase true, at most
\* once, and no step runs after it.
C20_StagesInOrder ==
    [][/\ Stage' >= Stage
       /\ pc # "END"
       /\ pc = "save_progress"
              => /\ final_report # None
                 /\ interview_complete
                 /\ salary_negotiation_phase
                 /\ log_file = << >>
       /\ Len(log_file') <= 1]_vars

\* A session has gone through the main loop and the salary question and has
\* been saved.
C20_Witness ==
    /\ pc = "END"
    /\ Len(log_file) = 1
    /\ Len(answers) >= 2
    /\ salary_questions(QUESTION_BANK) # << >>

\* The least element of a non-empty set of numbers.
Least(S) == CHOOSE i \in S : \A j \in S : i <= j

\* The positions of the bank whose question has none of the ids.
UnusedAt(ids) == { i \in DOMAIN QUESTION_BANK : QUESTION_BANK[i].id \notin ids }

\* The unused positions whose difficulty is d or medium.
FittingAt(ids, d) ==
    { i \in UnusedAt(ids) : QUESTION_BANK[i].difficulty \in {d, "medium"} }

\* The question the selection policy names for the asked ids and difficulty.
PolicyChoice(ids, d) ==
    IF FittingAt(ids, d) # {} THEN QUESTION_BANK[Least(FittingAt(ids, d))]
    ELSE IF UnusedAt(ids) # {} THEN QUESTION_BANK[Least(UnusedAt(ids))]
    ELSE None

\* C21: _select_question returns the first unused bank entry whose
\* difficulty is the current one or medium, else the first unused entry,
\* else none: a function of the bank, the difficulty and the set of
\* asked ids; and generate_question poses that question.
C21_SelectsByPolicy ==
    [][/\ \A d \in Difficulties :
              _select_question(QUESTION_BANK, asked_questions, d)
                  = PolicyChoice(AskedIds(asked_questions), d)
       /\ pc = "generate_question"
              => current_question'
                     = PolicyChoice(AskedIds(asked_questions), difficulty)]_vars

\* generate_question has just posed, as second question, a bank question
\* whose difficulty is neither the current one nor medium: the widened
\* list was used.
C21_Witness ==
    /\ pc = "evaluate_answer"
    /\ Len(asked_questions) = 2
    /\ \E i \in DOMAIN QUESTION_BANK : QUESTION_BANK[i] = asked_questions[2]
    /\ asked_questions[2].difficulty \notin {difficulty, "medium"}

\* s is a prefix of t.
IsPrefix(s, t) == Len(s) <= Len(t) /\ SubSeq(t, 1, Len(s)) = s

\* The nodes that run after analyze_role.
AfterAnalyzeRole ==
    pc \notin {"parse_job_description", "research_company", "analyze_role"}

\* C22: after analyze_role every step only appends to answers and to
\* asked_questions, and estimated_time_used_min and question_counter never
\* decrease.
C22_AppendOnlyAndMonotone ==
    [][AfterAnalyzeRole
           => /\ IsPrefix(answers, answers')
              /\ IsPrefix(asked_questions, asked_questions')
              /\ estimated_time_used_min' >= estimated_time_used_min
              /\ question_counter' >= question_counter]_vars

\* Two answers are recorded, the second taking less time than the first,
\* and update_progress has counted both.
C22_Witness ==
    /\ Len(answers) = 2
    /\ Len(asked_questions) = 2
    /\ answers[2].time_taken_sec < answers[1].time_taken_sec
    /\ estimated_time_used_min >= answers[1].time_taken_sec
    /\ pc \in {"generate_question", "generate_final_report"}

\* C23: question_counter never exceeds max_questions, follow-up questions
\* included.
C23_CounterWithinQuota == question_counter <= max_questions

\* The candidate's message of the session scores in the follow-up range.
EveryScoreInRange ==
    /\ messages # << >>
    /\ InFollowUpRange(Score(LastHumanAnswer(messages)))

\* C24: with a non-empty bank and every answer scoring in [2.8, 4.2), the
\* main loop terminates: generate_final_report is eventually reached.
C24_MainLoopTerminates ==
    (QUESTION_BANK # << >> /\ max_questions > 0 /\ EveryScoreInRange)
        => <>(pc = "generate_final_report")

\* The session summaries: the one save_progress is about to write and
\* those of the log.
Summaries ==
    { log_file[i] : i \in DOMAIN log_file }
        \cup (IF pc = "save_progress"
              THEN {[final_report |-> final_report, answers |-> answers]}
              ELSE {})

\* C25 as claimed: in every session summary total_questions of the report
\* is the number of records of answers.
C25_ReportMatchesAnswers ==
    \A s \in Summaries : s.final_report.total_questions = Len(s.answers)

\* C25 as amended: in every session summary total_questions of the report
\* is the number of records of answers when the bank has no Salary
\* question, and one less when it has: the answer to the salary question
\* is appended after the report, and nothing else is.
C25_ReportMatchesAnswersBeforeSalary ==
    \A s \in Summaries :
        Len(s.answers) = s.final_report.total_questions
                            + (IF salary_questions(QUESTION_BANK) = << >>
                               THEN 0 ELSE 1)

\* A session with two answers in its report and the salary answer after
\* them has been saved.
C25_Witness ==
    /\ pc = "END"
    /\ Len(log_file) = 1
    /\ log_file[1].final_report.total_questions = 2
    /\ Len(log_file[1].answers) = 3

\* C26: whenever generate_follow_up_question runs, should_follow_up is
\* true and current_question is the question whose answer was just
\* evaluated; the follow-up has the id followup_<id of that question> and
\* its type, difficulty and topic, and the step does not fail.
C26_FollowUpOfAnsweredQuestion ==
    [][pc = "generate_follow_up_question"
           => /\ should_follow_up
              /\ current_question # None
              /\ answers # << >>
              /\ Last(answers).question_id = current_question.id
              /\ pc' = "evaluate_answer"
              /\ current_question'.id = "followup_" \o current_question.id
              /\ current_question'.type = current_question.type
              /\ current_question'.difficulty = current_question.difficulty
              /\ current_question'.topic = current_question.topic
              /\ Last(asked_questions') = current_question']_vars

\* The follow-up to a hard first question has just been posed.
C26_Witness ==
    /\ pc = "evaluate_answer"
    /\ awaiting_answer
    /\ Len(asked_questions) = 2
    /\ asked_questions[1].difficulty = "hard"
    /\ current_question = asked_questions[2]
    /\ current_question.id = "followup_" \o asked_questions[1].id

====
